---- MODULE Spec2Model ----
(***************************************************************************)
(* Model of exchanges/kucoin.py: the request-signing and response-         *)
(* unwrapping pipeline of class Client.                                    *)
(*                                                                         *)
(* Text is modelled as a sequence of character codes, so that formatting,  *)
(* joining and lexicographic sorting are computed, not assumed.            *)
(***************************************************************************)
EXTENDS Integers, Sequences, FiniteSets, TLC

(***************************************************************************)
(* Bounds of the model.                                                    *)
(***************************************************************************)
MaxCalls == 2
MaxClock == 2
MaxParams == 2

(***************************************************************************)
(* Characters used by the format strings of the source.                    *)
(***************************************************************************)
SLASH == 47
EQUALS == 61
AMP == 38
ZERO == 48

API_URL == <<104, 116, 116, 112, 115, 58, 47, 47, 97, 112, 105, 46, 107, 117, 99, 111, 105, 110, 46, 99, 111, 109>>
API_VERSION == <<118, 49>>
DefaultLanguage == <<101, 110, 45, 85, 83>>
AcceptJson == <<97, 112, 112, 108, 105, 99, 97, 116, 105, 111, 110, 47, 106, 115, 111, 110>>
UserAgent == <<112, 121, 116, 104, 111, 110, 45, 107, 117, 99, 111, 105, 110>>

\* Credentials handed to Client.__init__ (any pair of strings).
API_KEY == <<107>>
API_SECRET == <<115>>

(***************************************************************************)
(* Python values that appear as parameter values: integers and strings.    *)
(* "{}".format(v) renders an integer in decimal and a string as itself.    *)
(***************************************************************************)
PyInt(n) == [t |-> "int", n |-> n, s |-> <<>>]
PyStr(s) == [t |-> "str", n |-> 0, s |-> s]

RECURSIVE IntToStr(_)
IntToStr(n) ==
    IF n < 10 THEN <<ZERO + n>>
    ELSE IntToStr(n \div 10) \o <<ZERO + (n % 10)>>

Format(v) == IF v.t = "int" THEN IntToStr(v.n) ELSE v.s

(***************************************************************************)
(* A dict is a sequence of (key, val) items in insertion order with        *)
(* pairwise distinct keys.                                                 *)
(***************************************************************************)
Item(k, v) == [key |-> k, val |-> v]

Keys(data) == [i \in 1..Len(data) |-> data[i].key]

Lookup(data, k) == (CHOOSE i \in 1..Len(data) : data[i].key = k)

Get(data, k) == data[Lookup(data, k)].val

\* Byte-wise lexicographic order of two strings, as Python compares str.
RECURSIVE LexLess(_, _)
LexLess(a, b) ==
    IF a = <<>> THEN b # <<>>
    ELSE IF b = <<>> THEN FALSE
    ELSE IF Head(a) < Head(b) THEN TRUE
    ELSE IF Head(a) > Head(b) THEN FALSE
    ELSE LexLess(Tail(a), Tail(b))

\* sorted(): insertion of each element into an ascending list.
RECURSIVE InsertSorted(_, _)
InsertSorted(k, s) ==
    IF s = <<>> THEN <<k>>
    ELSE IF LexLess(k, Head(s)) THEN <<k>> \o s
    ELSE <<Head(s)>> \o InsertSorted(k, Tail(s))

RECURSIVE Sorted(_)
Sorted(s) ==
    IF s = <<>> THEN <<>>
    ELSE InsertSorted(Head(s), Sorted(Tail(s)))

\* sep.join(strs)
RECURSIVE Join(_, _)
Join(sep, strs) ==
    IF strs = <<>> THEN <<>>
    ELSE IF Len(strs) = 1 THEN strs[1]
    ELSE strs[1] \o <<sep>> \o Join(sep, Tail(strs))

\* The order in which _order_params_for_sig visits the keys.
UnsortedKeys(data) == Keys(data)
IterKeys(data) == Sorted(Keys(data))

\* Client._order_params_for_sig
order_params_for_sig(data) ==
    LET ks == IterKeys(data)
        strs == [i \in 1..Len(ks) |-> ks[i] \o <<EQUALS>> \o Format(Get(data, ks[i]))]
    IN  Join(AMP, strs)

\* hmac.new(secret, base64(msg), sha256).hexdigest(), as an injective
\* encoding of the pair (secret, msg).
HmacB64(secret, msg) == <<Len(secret)>> \o secret \o msg

\* The string that is signed: "{}/{}/{}".format(path, nonce, query_string)
sig_str_no_nonce(path, data, nonce) ==
    path \o <<SLASH>> \o <<SLASH>> \o order_params_for_sig(data)
sig_str(path, data, nonce) ==
    path \o <<SLASH>> \o Format(nonce) \o <<SLASH>> \o order_params_for_sig(data)

\* Client._generate_signature, with the secret of the client made explicit
generate_signature(secret, path, data, nonce) ==
    HmacB64(secret, sig_str(path, data, nonce))

\* Client._create_path
create_path(method, path) == <<SLASH>> \o API_VERSION \o <<SLASH>> \o path

\* Client._create_uri
create_uri(path) == API_URL \o path


(***************************************************************************)
(* requests.Session: the headers set once by _init_session are merged into *)
(* every request, the headers of the request taking precedence.            *)
(***************************************************************************)
NoHeaders == [n \in {} |-> <<>>]

\* Client._init_session
init_session(api_key, language) ==
    [n \in {"Accept", "User-Agent", "KC-API-KEY", "HTTP_ACCEPT_LANGUAGE", "Accept-Language"} |->
        CASE n = "Accept" -> AcceptJson
          [] n = "User-Agent" -> UserAgent
          [] n = "KC-API-KEY" -> api_key
          [] OTHER -> language]

session_headers == init_session(API_KEY, DefaultLanguage)

MergeHeaders(request_headers, session) == request_headers @@ session

\* Lines 94-98 of _request: the headers added to kwargs['headers'].
SignedHeadersStaleNonce(signed, full_path, data, nonce) ==
    IF signed
    THEN ("KC-API-NONCE" :> Format(PyInt(nonce.n + 1))) @@
         ("KC-API-SIGNATURE" :> generate_signature(API_SECRET, full_path, data, nonce))
    ELSE NoHeaders
SignedHeaders(signed, full_path, data, nonce) ==
    IF signed
    THEN ("KC-API-NONCE" :> Format(nonce)) @@
         ("KC-API-SIGNATURE" :> generate_signature(API_SECRET, full_path, data, nonce))
    ELSE NoHeaders

\* Line 100 of _request: kwargs['data'] is moved to kwargs['params'].
AsQueryAnyMethod(method, data) == data # <<>>
AsQuery(method, data) == data # <<>> /\ method = "get"

\* The keyword arguments handed to session.<method>(uri, **kwargs).
BuildRequest(method, path, signed, data, now) ==
    LET full_path == create_path(method, path)
        uri == create_uri(full_path)
        nonce == PyInt(now)
        headers == SignedHeaders(signed, full_path, data, nonce)
        query == AsQuery(method, data)
    IN  [method |-> method,
         uri |-> uri,
         headers |-> MergeHeaders(headers, session_headers),
         has_params |-> query,
         params |-> IF query THEN data ELSE <<>>,
         has_data |-> ~query,
         data |-> IF query THEN <<>> ELSE data]

(***************************************************************************)
(* JSON.  A field value is a record [k, v]; JAbsent marks a key that the   *)
(* object does not have.  JSON null parses to Python None.                 *)
(***************************************************************************)
JAbsent == [k |-> "absent", v |-> 0]
JNull == [k |-> "null", v |-> 0]
JNum(n) == [k |-> "num", v |-> n]
JEmptyList == [k |-> "list", v |-> 0]
PyNone == JNull

ObjKeys == {"data", "timestamp", "coins"}

JObject(d, t, c) ==
    [k |-> "object",
     o |-> [n \in ObjKeys |-> CASE n = "data" -> d [] n = "timestamp" -> t [] OTHER -> c]]
JStrList(elems) == [k |-> "strlist", elems |-> elems]
NotJson == [k |-> "invalid", v |-> 0]

DataValues == {JAbsent, JNull, JNum(5), JEmptyList}
TimestampValues == {JAbsent, JNum(42), JNum(43)}
CoinsValues == {JAbsent, JNum(1)}

Objects == {JObject(d, t, c) : d \in DataValues, t \in TimestampValues, c \in CoinsValues}
NonObjects == {JNull, JStrList({}), JStrList({"data"}), JStrList({"timestamp"})}
Bodies == Objects \cup NonObjects \cup {NotJson}

StatusCodes == {200, 201, 404}
Responses == [status_code : StatusCodes, body : Bodies]

\* str(response.status_code).startswith('2')
StartsWith2(status_code) == Head(IntToStr(status_code)) = ZERO + 2

\* key in json: raises TypeError for None and numbers.
CanContain(json) == json.k \in {"object", "strlist"}
Contains(json, key) ==
    IF json.k = "object" THEN json.o[key] # JAbsent ELSE key \in json.elems

\* json[key] with a str key: only a dict supports it.
CanIndex(json) == json.k = "object"

\* Lines 117-121 of _handle_response, for a json on which they do not raise.
UnwrapNever(json) == json
Unwrap(json) == IF Contains(json, "data") THEN json.o["data"] ELSE json

Raise(last, kind, carried) == [last |-> last, kind |-> kind, val |-> carried]
Return(last, res) == [last |-> last, kind |-> "return", val |-> res]

\* Lines 112-121: the body of the try block after response.json() succeeded.
AfterParse(json) ==
    IF ~CanContain(json) THEN Raise(PyNone, "TypeError", json)
    ELSE IF Contains(json, "timestamp") /\ ~CanIndex(json) THEN Raise(PyNone, "TypeError", json)
    ELSE LET last == IF Contains(json, "timestamp") THEN json.o["timestamp"] ELSE PyNone
         IN  IF Contains(json, "data") /\ ~CanIndex(json) THEN Raise(last, "TypeError", json)
             ELSE Return(last, Unwrap(json))

\* Client._handle_response: the new _last_timestamp and what the call
\* returns or raises.
handle_response(last, response) ==
    IF ~StartsWith2(response.status_code) THEN Raise(last, "HttpStatusError", response)
    ELSE IF response.body.k = "invalid" THEN Raise(last, "InvalidResponseError", response.body)
    ELSE AfterParse(response.body)


(***************************************************************************)
(* Inputs.                                                                 *)
(***************************************************************************)
\* All dicts with at most n items, keys from K and values from V, in every
\* insertion order.
DictsOf(K, V, n) ==
    UNION {{d \in [1..m -> {Item(k, v) : k \in K, v \in V}] :
                \A i, j \in 1..m : i # j => d[i].key # d[j].key} : m \in 0..n}

Methods == {"get", "post", "put", "delete"}
Endpoints == {<<111, 114, 100, 101, 114>>}
CallKeys == {<<97>>, <<98>>}
CallValues == {PyInt(1), PyStr(<<120>>)}
CallData == DictsOf(CallKeys, CallValues, MaxParams)

NoCall == [method |-> "none"]
NoRequest == [method |-> "none"]
NoResponse == [status_code |-> 0]
TransportFailure == [status_code |-> 0, failed |-> TRUE]
NoOutcome == [last |-> PyNone, kind |-> "none", val |-> PyNone]

(***************************************************************************)
(* State.                                                                  *)
(***************************************************************************)
VARIABLES
    last_timestamp,  \* Client._last_timestamp
    clock,           \* time.time() in whole milliseconds
    pc,              \* "idle", or "waiting" inside session.<method>(...)
    call,            \* arguments of the call in progress
    req,             \* what the call in progress handed to the session
    resp,            \* what the transport gave the latest call, until the next call
    outcome,         \* what the latest finished call returned or raised
    http_sent,       \* HTTP requests issued so far
    calls,           \* endpoint calls started so far
    returned,        \* endpoint calls that returned or raised so far
    nonces,          \* KC-API-NONCE of the signed requests, in order
    tpc,             \* position of each parallel handler
    tresp,           \* the response each parallel handler was given
    observed,        \* what a concurrent get_last_timestamp returned
    stage,           \* progress of the pure-function runs
    inA,             \* first input of sign
    inB,             \* second input of sign
    dataP,           \* a reordering of the items of inA.data
    canonA,
    canonP,
    sigA,
    sigB

clientVars == <<clock, pc, call, req, resp, outcome, http_sent, calls, returned, nonces>>
parVars == <<tpc, tresp, observed>>
sigVars == <<stage, inA, inB, dataP, canonA, canonP, sigA, sigB>>
vars == <<last_timestamp, clientVars, parVars, sigVars>>

Threads == {1, 2}
NotObserved == [read |-> FALSE, val |-> PyNone]
NoInput == [path |-> <<>>, data |-> <<>>, nonce |-> PyInt(0), secret |-> <<>>]

ClientIdle ==
    /\ clock = 0
    /\ pc = "idle"
    /\ call = NoCall
    /\ req = NoRequest
    /\ resp = NoResponse
    /\ outcome = NoOutcome
    /\ http_sent = 0
    /\ calls = 0
    /\ returned = 0
    /\ nonces = <<>>

ParIdle ==
    /\ tpc = [t \in Threads |-> "off"]
    /\ tresp = [t \in Threads |-> NoResponse]
    /\ observed = NotObserved

SigIdle ==
    /\ stage = "off"
    /\ inA = NoInput
    /\ inB = NoInput
    /\ dataP = <<>>
    /\ canonA = <<>>
    /\ canonP = <<>>
    /\ sigA = <<>>
    /\ sigB = <<>>

(***************************************************************************)
(* One client used sequentially.                                           *)
(***************************************************************************)
Init ==
    /\ last_timestamp = PyNone
    /\ ClientIdle
    /\ ParIdle
    /\ SigIdle

\* _get, _post, _put, _delete -> _request, up to the blocking HTTP call.
Dispatch(method, path, signed, data) ==
    /\ pc = "idle"
    /\ calls < MaxCalls
    /\ call' = [method |-> method, path |-> path, signed |-> signed, data |-> data]
    /\ req' = BuildRequest(method, path, signed, data, clock)
    /\ nonces' = IF signed THEN Append(nonces, clock) ELSE nonces
    /\ http_sent' = http_sent + 1
    /\ calls' = calls + 1
    /\ resp' = NoResponse
    /\ outcome' = NoOutcome
    /\ pc' = "waiting"
    /\ UNCHANGED <<last_timestamp, clock, returned, parVars, sigVars>>

\* session.<method>(...) raises: the exception leaves _request.
TransportErrorRetry ==
    /\ pc = "waiting"
    /\ http_sent' = http_sent + 1
    /\ UNCHANGED <<last_timestamp, clock, pc, call, req, resp, outcome,
                   calls, returned, nonces, parVars, sigVars>>
TransportError ==
    /\ pc = "waiting"
    /\ resp' = TransportFailure
    /\ outcome' = Raise(last_timestamp, "TransportError", PyNone)
    /\ returned' = returned + 1
    /\ req' = NoRequest
    /\ call' = NoCall
    /\ pc' = "idle"
    /\ UNCHANGED <<last_timestamp, clock, http_sent, calls, nonces, parVars, sigVars>>

\* session.<method>(...) returns a response: _handle_response runs.
Respond(response) ==
    /\ pc = "waiting"
    /\ resp' = response
    /\ outcome' = handle_response(last_timestamp, response)
    /\ last_timestamp' = outcome'.last
    /\ returned' = returned + 1
    /\ req' = NoRequest
    /\ call' = NoCall
    /\ pc' = "idle"
    /\ UNCHANGED <<clock, http_sent, calls, nonces, parVars, sigVars>>

\* The wall clock advances by a millisecond.
Tick ==
    /\ clock < MaxClock
    /\ clock' = clock + 1
    /\ UNCHANGED <<last_timestamp, pc, call, req, resp, outcome, http_sent,
                   calls, returned, nonces, parVars, sigVars>>

\* Client.get_last_timestamp
get_last_timestamp == last_timestamp

Next ==
    \/ \E m \in Methods, p \in Endpoints, s \in BOOLEAN, d \in CallData : Dispatch(m, p, s, d)
    \/ TransportError
    \/ \E r \in Responses : Respond(r)
    \/ Tick

Spec == Init /\ [][Next]_vars


(***************************************************************************)
(* Properties of the sequential client.                                    *)
(***************************************************************************)
IsResponse(r) == r.status_code # 0
Finished == pc = "idle" /\ IsResponse(resp)

HasTimestamp(body) == body.k = "object" /\ body.o["timestamp"] # JAbsent
HasData(body) == body.k = "object" /\ body.o["data"] # JAbsent

\* C1: after a handling cycle, get_last_timestamp is the timestamp field of
\* the response just handled when its parsed body has one, and None in every
\* other case, error cycles included.
C1_TimestampOfLatestResponse ==
    Finished =>
        get_last_timestamp =
            IF StartsWith2(resp.status_code) /\ HasTimestamp(resp.body)
            THEN resp.body.o["timestamp"]
            ELSE PyNone

\* C2: every response ends in exactly one of three outcomes: the status
\* error carrying the response when the status does not start with 2,
\* else the invalid-response error carrying the text when the body is not
\* JSON, else a returned result.
C2_ThreeOutcomes ==
    Finished =>
        IF ~StartsWith2(resp.status_code)
        THEN outcome.kind = "HttpStatusError" /\ outcome.val = resp
        ELSE IF resp.body = NotJson
        THEN outcome.kind = "InvalidResponseError" /\ outcome.val = resp.body
        ELSE outcome.kind = "return"

WithTimestamp(r, t) == [r EXCEPT !.body.o["timestamp"] = t]

\* C3: a 2xx response with a JSON object returns the value of data when the
\* key is present, whatever the value, and the whole object otherwise; with
\* data present the result is the same for every timestamp field.
C3_ReturnsDataOrWholeObject ==
    (Finished /\ StartsWith2(resp.status_code) /\ resp.body.k = "object") =>
        /\ outcome.kind = "return"
        /\ HasData(resp.body) => outcome.val = resp.body.o["data"]
        /\ ~HasData(resp.body) => outcome.val = resp.body
        /\ HasData(resp.body) =>
              \A t \in TimestampValues :
                  handle_response(last_timestamp, WithTimestamp(resp, t)).val = outcome.val

C3_Witness ==
    /\ Finished
    /\ resp.status_code = 201
    /\ resp.body.k = "object"
    /\ resp.body.o["data"] = JNull
    /\ HasTimestamp(resp.body)
    /\ outcome.val = JNull

\* What the request transmits: the query string or the body.
Transmitted(r) == IF r.has_params THEN r.params ELSE r.data
VersionedPath(r) == SubSeq(r.uri, Len(API_URL) + 1, Len(r.uri))

\* C4: a signed request carries KC-API-NONCE and KC-API-SIGNATURE, the
\* signature being over the versioned path of the URI, the nonce of the
\* header and the transmitted parameters; an unsigned request carries
\* neither; every request carries KC-API-KEY.
C4_SignedHeaders ==
    pc = "waiting" =>
        LET h == req.headers IN
        /\ "KC-API-KEY" \in DOMAIN h
        /\ h["KC-API-KEY"] = API_KEY
        /\ VersionedPath(req) = <<SLASH>> \o API_VERSION \o <<SLASH>> \o call.path
        /\ call.signed =>
              /\ {"KC-API-NONCE", "KC-API-SIGNATURE"} \subseteq DOMAIN h
              /\ h["KC-API-NONCE"] = IntToStr(nonces[Len(nonces)])
              /\ h["KC-API-SIGNATURE"] =
                    HmacB64(API_SECRET,
                            VersionedPath(req) \o <<SLASH>> \o h["KC-API-NONCE"] \o <<SLASH>>
                                \o order_params_for_sig(Transmitted(req)))
        /\ ~call.signed => {"KC-API-NONCE", "KC-API-SIGNATURE"} \cap DOMAIN h = {}

C4_Witness ==
    /\ pc = "waiting"
    /\ call.signed
    /\ call.method = "get"
    /\ req.has_params
    /\ Len(req.params) = 2
    /\ req.headers["KC-API-NONCE"] = <<ZERO + 1>>

\* C5: the parameters go into the query string exactly when the method is
\* GET and the mapping is non-empty; otherwise they go into the body.
C5_QueryOnlyForNonEmptyGet ==
    pc = "waiting" =>
        /\ req.has_params <=> (call.method = "get" /\ call.data # <<>>)
        /\ req.has_params => (~req.has_data /\ req.params = call.data)
        /\ ~req.has_params => (req.has_data /\ req.data = call.data)
        /\ call.method # "get" => (req.has_data /\ ~req.has_params)

C5_Witness ==
    /\ pc = "waiting"
    /\ call.method = "delete"
    /\ call.signed
    /\ Len(call.data) = 2
    /\ req.has_data
    /\ req.data = call.data

\* C8: every call issues exactly one HTTP request, and a failure of the
\* transport, of the status or of the parse ends that call with the error.
C8_OneRequestPerCall ==
    /\ http_sent = calls
    /\ returned = IF pc = "waiting" THEN calls - 1 ELSE calls
    /\ (pc = "idle" /\ calls > 0) =>
          /\ outcome.kind # "none"
          /\ resp = TransportFailure => outcome.kind = "TransportError"
          /\ (IsResponse(resp) /\ ~StartsWith2(resp.status_code)) =>
                outcome.kind = "HttpStatusError"
          /\ (IsResponse(resp) /\ StartsWith2(resp.status_code) /\ resp.body = NotJson) =>
                outcome.kind = "InvalidResponseError"

C8_Witness ==
    /\ pc = "idle"
    /\ calls = 2
    /\ http_sent = 2
    /\ resp = TransportFailure
    /\ outcome.kind = "TransportError"

\* C9: no two signed requests of a client carry the same nonce, and a later
\* nonce is never smaller than an earlier one.
C9_NoncesUniqueAndOrdered ==
    \A i, j \in DOMAIN nonces :
        i < j => (nonces[i] # nonces[j] /\ nonces[i] <= nonces[j])


(***************************************************************************)
(* Two calls of one client whose responses are handled in parallel.  Each  *)
(* handler runs _handle_response line by line; a store to or a load from   *)
(* self._last_timestamp is one step.                                       *)
(***************************************************************************)
ParBodies ==
    {JObject(JAbsent, t, JAbsent) : t \in TimestampValues}
        \cup {NotJson, JNull, JStrList({"timestamp"})}
ParResponses == [status_code : {200, 404}, body : ParBodies]

\* The client has handled earlier responses one after the other, which
\* left None or a timestamp behind.
InitPar ==
    /\ last_timestamp \in {PyNone, JNum(42)}
    /\ ClientIdle
    /\ tpc = [t \in Threads |-> "line108"]
    /\ tresp \in [Threads -> ParResponses]
    /\ observed = NotObserved
    /\ SigIdle

Goto(t, line) == tpc' = [tpc EXCEPT ![t] = line]

\* if not str(response.status_code).startswith('2'): raise
CheckStatus(t) ==
    /\ tpc[t] = "line108"
    /\ Goto(t, IF StartsWith2(tresp[t].status_code) THEN "line111" ELSE "raised")
    /\ UNCHANGED <<last_timestamp, clientVars, tresp, observed, sigVars>>

\* json = response.json()
Parse(t) ==
    /\ tpc[t] = "line111"
    /\ Goto(t, IF tresp[t].body.k = "invalid" THEN "raised" ELSE "line112")
    /\ UNCHANGED <<last_timestamp, clientVars, tresp, observed, sigVars>>

\* self._last_timestamp = None
Reset(t) ==
    /\ tpc[t] = "line112"
    /\ last_timestamp' = PyNone
    /\ Goto(t, "line113")
    /\ UNCHANGED <<clientVars, tresp, observed, sigVars>>

\* if 'timestamp' in json:
TestTimestamp(t) ==
    /\ tpc[t] = "line113"
    /\ Goto(t, IF ~CanContain(tresp[t].body) THEN "raised"
               ELSE IF Contains(tresp[t].body, "timestamp") THEN "line114"
               ELSE "line117")
    /\ UNCHANGED <<last_timestamp, clientVars, tresp, observed, sigVars>>

\* self._last_timestamp = json['timestamp']
Record(t) ==
    /\ tpc[t] = "line114"
    /\ IF CanIndex(tresp[t].body)
       THEN last_timestamp' = tresp[t].body.o["timestamp"] /\ Goto(t, "line117")
       ELSE last_timestamp' = last_timestamp /\ Goto(t, "raised")
    /\ UNCHANGED <<clientVars, tresp, observed, sigVars>>

\* res = json ... return res
ReturnResult(t) ==
    /\ tpc[t] = "line117"
    /\ Goto(t, IF Contains(tresp[t].body, "data") /\ ~CanIndex(tresp[t].body)
               THEN "raised" ELSE "returned")
    /\ UNCHANGED <<last_timestamp, clientVars, tresp, observed, sigVars>>

\* Another thread calls get_last_timestamp.
ReadLastTimestamp ==
    /\ \E t \in Threads : tpc[t] \notin {"off", "returned", "raised"}
    /\ observed' = [read |-> TRUE, val |-> get_last_timestamp]
    /\ UNCHANGED <<last_timestamp, clientVars, tpc, tresp, sigVars>>

NextPar ==
    \/ \E t \in Threads : CheckStatus(t)
    \/ \E t \in Threads : Parse(t)
    \/ \E t \in Threads : Reset(t)
    \/ \E t \in Threads : TestTimestamp(t)
    \/ \E t \in Threads : Record(t)
    \/ \E t \in Threads : ReturnResult(t)
    \/ ReadLastTimestamp

SpecPar == InitPar /\ [][NextPar]_vars

BothFinished == \A t \in Threads : tpc[t] \in {"returned", "raised"}

\* The timestamp a response leaves behind when it is handled alone, as the
\* contract of handle_response states it.
OutcomeOf(r) ==
    IF StartsWith2(r.status_code) /\ HasTimestamp(r.body)
    THEN r.body.o["timestamp"]
    ELSE PyNone

\* C10: once both parallel handlings have finished, get_last_timestamp is
\* the outcome, a recorded timestamp or None, of one of the two responses.
C10_OutcomeOfOneOfTheTwo ==
    BothFinished => get_last_timestamp \in {OutcomeOf(tresp[t]) : t \in Threads}

\* The same for two responses that both reach the reset of line 112.
ParsedOk(r) == StartsWith2(r.status_code) /\ r.body.k # "invalid"
ParOutcomeAmongParsed ==
    (BothFinished /\ \E t \in Threads : ParsedOk(tresp[t])) =>
        get_last_timestamp \in {OutcomeOf(tresp[t]) : t \in {u \in Threads : ParsedOk(tresp[u])}}

\* A reader sees None although both responses carry a timestamp and the
\* client held one before.
ParReaderSeesNoneBetween ==
    /\ \A t \in Threads : ParsedOk(tresp[t]) /\ HasTimestamp(tresp[t].body)
    /\ observed = [read |-> TRUE, val |-> PyNone]

\* The first handler to be given its response wrote last.
ParFirstWins ==
    /\ BothFinished
    /\ \A t \in Threads : ParsedOk(tresp[t]) /\ HasTimestamp(tresp[t].body)
    /\ tresp[1].body # tresp[2].body
    /\ get_last_timestamp = OutcomeOf(tresp[1])

ParSecondWins ==
    /\ BothFinished
    /\ \A t \in Threads : ParsedOk(tresp[t]) /\ HasTimestamp(tresp[t].body)
    /\ tresp[1].body # tresp[2].body
    /\ get_last_timestamp = OutcomeOf(tresp[2])


(***************************************************************************)
(* _order_params_for_sig and _generate_signature as functions of their     *)
(* arguments: the inputs are drawn at the start, then each is applied.     *)
(***************************************************************************)
SigPaths == {create_path("get", <<111>>), create_path("get", <<112>>)}
SigKeys == {<<97>>, <<97, 98>>, <<98>>}
SigValues == {PyInt(1), PyStr(<<ZERO + 1>>), PyStr(<<ZERO + 2>>)}
SigNonces == {PyInt(9), PyInt(10)}
SigSecrets == {<<115>>, <<116>>}
SigData == DictsOf(SigKeys, SigValues, MaxParams)
SigInputs == [path : SigPaths, data : SigData, nonce : SigNonces, secret : SigSecrets]

\* The same items in another insertion order.
Reorderings(data) ==
    {d \in [1..Len(data) -> {data[i] : i \in 1..Len(data)}] :
        {d[i] : i \in 1..Len(d)} = {data[i] : i \in 1..Len(data)}}

\* The input itself and every input that differs from it in one argument
\* or in the value of one parameter.
Variants(in) ==
    {in}
      \cup {[in EXCEPT !.path = p] : p \in SigPaths}
      \cup {[in EXCEPT !.nonce = n] : n \in SigNonces}
      \cup {[in EXCEPT !.secret = k] : k \in SigSecrets}
      \cup {[in EXCEPT !.data[i].val = v] : i \in 1..Len(in.data), v \in SigValues}

InitSig ==
    /\ last_timestamp = PyNone
    /\ ClientIdle
    /\ ParIdle
    /\ stage = "input"
    /\ inA \in SigInputs
    /\ inB \in Variants(inA)
    /\ dataP \in Reorderings(inA.data)
    /\ canonA = <<>>
    /\ canonP = <<>>
    /\ sigA = <<>>
    /\ sigB = <<>>

Canonicalize ==
    /\ stage = "input"
    /\ canonA' = order_params_for_sig(inA.data)
    /\ canonP' = order_params_for_sig(dataP)
    /\ stage' = "canon"
    /\ UNCHANGED <<last_timestamp, clientVars, parVars, inA, inB, dataP, sigA, sigB>>

Sign ==
    /\ stage = "canon"
    /\ sigA' = generate_signature(inA.secret, inA.path, inA.data, inA.nonce)
    /\ sigB' = generate_signature(inB.secret, inB.path, inB.data, inB.nonce)
    /\ stage' = "signed"
    /\ UNCHANGED <<last_timestamp, clientVars, parVars, inA, inB, dataP, canonA, canonP>>

NextSig == Canonicalize \/ Sign

SpecSig == InitSig /\ [][NextSig]_vars

ItemsOf(data) == {data[i] : i \in 1..Len(data)}

\* The items of a mapping listed by ascending key.
Ascending(S) ==
    CHOOSE q \in [1..Cardinality(S) -> S] :
        \A i, j \in 1..Cardinality(S) : i < j => LexLess(q[i].key, q[j].key)

KeyValue(item) == item.key \o <<EQUALS>> \o Format(item.val)

\* C6: canonicalize gives the same string for every insertion order of the
\* same items: the key=value pairs by ascending key joined by &, and the
\* empty string for the empty mapping.
C6_OrderIndependent ==
    stage \in {"canon", "signed"} =>
        /\ canonP = canonA
        /\ LET asc == Ascending(ItemsOf(inA.data))
           IN  canonA = Join(AMP, [i \in 1..Len(asc) |-> KeyValue(asc[i])])
        /\ inA.data = <<>> => canonA = <<>>

C6_Witness ==
    /\ stage = "canon"
    /\ Len(inA.data) = 2
    /\ inA.data[1].key = <<97, 98>>
    /\ inA.data[2].key = <<97>>
    /\ dataP # inA.data
    /\ canonP = canonA
    /\ canonA # <<>>

\* Two inputs whose texts are the same: equal path, nonce and secret, and
\* parameters that agree in every key and in the rendering of every value.
SameText(a, b) ==
    /\ a.path = b.path
    /\ Format(a.nonce) = Format(b.nonce)
    /\ a.secret = b.secret
    /\ Len(a.data) = Len(b.data)
    /\ \A i \in 1..Len(a.data) :
          /\ a.data[i].key = b.data[i].key
          /\ Format(a.data[i].val) = Format(b.data[i].val)

\* C7 as stated: equal inputs give equal digests, and a change of the path,
\* of one parameter value, of the nonce or of the secret changes the digest.
C7_AnyChangeChangesDigest ==
    stage = "signed" =>
        /\ inA = inB => sigA = sigB
        /\ inA # inB => sigA # sigB

\* C7, amended: equal inputs give equal digests; a change of the path, of
\* the nonce, of the secret or of the text of one parameter value changes
\* the digest; a value replaced by one with the same text does not.
C7_TextChangeChangesDigest ==
    stage = "signed" =>
        /\ inA = inB => sigA = sigB
        /\ ~SameText(inA, inB) => sigA # sigB
        /\ SameText(inA, inB) => sigA = sigB

C7_Witness ==
    /\ stage = "signed"
    /\ Len(inA.data) = 2
    /\ inA.data[2].val = PyStr(<<ZERO + 1>>)
    /\ inB.data[2].val = PyStr(<<ZERO + 2>>)
    /\ [inB EXCEPT !.data[2].val = inA.data[2].val] = inA
    /\ sigA # sigB

====
